---- MODULE Spec2Model ----
(***************************************************************************)
(* Model of userspace/ksud/src/kpm.rs: the KPM module directory, the       *)
(* kpmmgr helper, the bootstrap (start_kpm_watcher), the safe-mode purge   *)
(* (remove_all_kpms), unload_kpm / find_kpm_file, load_kpm and the event   *)
(* handlers behind the notify watcher.                                     *)
(*                                                                         *)
(* File names are sequences of one-character strings.  The character "X"   *)
(* stands for a byte that is not valid UTF-8 and "R" for U+FFFD, the       *)
(* replacement character to_string_lossy puts in its place.  Every path    *)
(* is a file name inside KPM_DIR (the watch is non-recursive).             *)
(***************************************************************************)
EXTENDS Integers, Sequences, FiniteSets, TLC

VARIABLES helper, safeMode, dirExists, files, dirExists0, files0,
          watcher, subscribed, mainOp, pc, ret, ev, idx, cur, uname, found,
          ures, todo, log, result, bootQuery, bootEnsure, purgeRes,
          purgeEnsure, purgeDirErr, bulkEnsure, bulkDirErr, loadCalls,
          createSeen, nPaths

vars == <<helper, safeMode, dirExists, files, dirExists0, files0,
          watcher, subscribed, mainOp, pc, ret, ev, idx, cur, uname, found,
          ures, todo, log, result, bootQuery, bootEnsure, purgeRes,
          purgeEnsure, purgeDirErr, bulkEnsure, bulkDirErr, loadCalls,
          createSeen, nPaths>>

(* Bound of the model: the number of paths the events delivered in one run
   carry in total (two events of one path each, or one event of two). *)
MaxPaths == 2

(***************************************************************************)
(* Option values, strings and paths                                        *)
(***************************************************************************)
None == <<>>
Some(x) == <<x>>

Range(s) == {s[i] : i \in 1..Len(s)}

KPM == <<"k", "p", "m">>

FileNames ==
  { <<"a", ".", "k", "p", "m">>,
    <<"b", ".", "k", "p", "m">>,
    <<"a", ".", "t", "x", "t">>,
    <<"X", ".", "k", "p", "m">> }

(* Names a caller of unload_kpm passes: &str, so always valid UTF-8. *)
Names == { <<"a">>, <<"b">>, <<"c">> }

(* Position of the last '.' of a file name, 0 when there is none. *)
LastDot(s) ==
  LET ds == {i \in 1..Len(s) : s[i] = "."}
  IN IF ds = {} THEN 0 ELSE CHOOSE i \in ds : \A j \in ds : j <= i

(* Path::file_stem: the name up to the last '.', the whole name when it has
   no '.' or only a leading one. *)
FileStem(s) ==
  IF s = <<>> THEN None
  ELSE IF LastDot(s) <= 1 THEN Some(s)
  ELSE Some(SubSeq(s, 1, LastDot(s) - 1))

(* Path::extension: what follows the last '.', None when the name has no
   '.' or only a leading one. *)
Extension(s) ==
  IF s = <<>> \/ LastDot(s) <= 1 THEN None
  ELSE Some(SubSeq(s, LastDot(s) + 1, Len(s)))

(* OsStr::to_str *)
ToStr(s) == IF "X" \in Range(s) THEN None ELSE Some(s)

(* OsStr::to_string_lossy *)
ToStringLossy(s) == [i \in 1..Len(s) |-> IF s[i] = "X" THEN "R" ELSE s[i]]

(* Any extension at all taken for the module extension. *)
HasAnyExtension(p) == Extension(p) # None

(* The stem compared where the extension was meant. *)
HasKpmStem(p) == FileStem(p) = Some(KPM)

(* path.extension() == Some(OsStr::new("kpm")) *)
HasKpmExtension(p) == Extension(p) = Some(KPM)

(* path.file_stem().and_then(|s| s.to_str()) *)
StemStr(p) == IF FileStem(p) = None THEN None ELSE ToStr(FileStem(p)[1])

ToLowerChar(c) ==
  CASE c = "E" -> "e" [] c = "R" -> "r" [] c = "O" -> "o" [] OTHER -> c

ToLower(s) == [i \in 1..Len(s) |-> ToLowerChar(s[i])]

IsSpace(c) == c \in {" ", "\n"}

RECURSIVE TrimStart(_)
TrimStart(s) ==
  IF s # <<>> /\ IsSpace(Head(s)) THEN TrimStart(Tail(s)) ELSE s

RECURSIVE TrimEnd(_)
TrimEnd(s) ==
  IF s # <<>> /\ IsSpace(s[Len(s)]) THEN TrimEnd(SubSeq(s, 1, Len(s) - 1)) ELSE s

Trim(s) == TrimEnd(TrimStart(s))

StartsWith(s, p) == Len(s) >= Len(p) /\ SubSeq(s, 1, Len(p)) = p

(***************************************************************************)
(* The kpmmgr helper and the file system, as the code sees them            *)
(***************************************************************************)
Threads == {"main", "h1", "h2"}

ERRORPREFIX == <<"e", "r", "r", "o", "r">>

(* What the helper may print on stdout for "version". *)
VersionTexts ==
  { <<"v", "1">>,
    <<"0", " ", "e", "r", "r", "o", "r", "s">>,
    <<"E", "r", "r", "o", "r">>,
    <<" ", "E", "R", "R", "O", "R", ":", "x", "\n">> }

(* The version texts above that report an error. *)
ErrorTexts ==
  { <<"E", "r", "r", "o", "r">>,
    <<" ", "E", "R", "R", "O", "R", ":", "x", "\n">> }

(* What an observer of the helper sees of a version query. *)
Observed(o) ==
  IF o.status # "zero" THEN o.status
  ELSE IF o.stdout \in ErrorTexts THEN "errtext" ELSE "text"

(* Command::status()/output() on KPMMGR_PATH: the spawn fails when the file
   is missing or not executable, and may fail for want of resources. *)
SpawnOutcomes ==
  IF helper = "ok" THEN {"spawnfail", "nonzero", "zero"} ELSE {"spawnfail"}

VersionOutcomes ==
  {[status |-> "spawnfail", stdout |-> <<>>]}
    \cup (IF helper = "ok"
          THEN {[status |-> "nonzero", stdout |-> <<>>]}
                 \cup {[status |-> "zero", stdout |-> t] : t \in VersionTexts}
          ELSE {})

IoOutcomes == {"ok", "fail"}

(* fs::remove_file(p) *)
RemoveOutcomes(p) == IF p \in files THEN {"ok", "denied"} ELSE {"notfound"}

(* get_kpm_version *)
GetKpmVersion(o) ==
  IF o.status = "zero"
  THEN [ok |-> TRUE, err |-> "", version |-> Trim(o.stdout)]
  ELSE [ok |-> FALSE, err |-> o.status, version |-> <<>>]

(* check_kpm_configured: the helper path exists and has an executable bit *)
CheckKpmConfigured == helper = "ok"

(* ensure_kpm_dir without the test of the version text: any version the
   helper prints with exit status zero is accepted. *)
EnsureKpmDirAnyText(o, mk, exists) ==
  LET v == [ok |-> o.status = "zero", err |-> o.status]
  IN IF v.ok
     THEN IF ~exists /\ mk # "ok"
          THEN [ok |-> FALSE, class |-> "mkdirfail", dir |-> FALSE]
          ELSE [ok |-> TRUE, class |-> "ok", dir |-> TRUE]
     ELSE [ok |-> FALSE, class |-> v.err, dir |-> exists]

(* ensure_kpm_dir: o is the outcome of the version query, mk the outcome of
   create_dir_all, exists whether KPM_DIR exists.  is_kpm_configured is
   computed and not read by the match. *)
EnsureKpmDir(o, mk, exists) ==
  LET v == GetKpmVersion(o)
      is_kpm_configured == CheckKpmConfigured
  IN IF v.ok /\ ~StartsWith(ToLower(v.version), ERRORPREFIX)
     THEN IF ~exists
          THEN IF mk = "ok"
               THEN [ok |-> TRUE, class |-> "ok", dir |-> TRUE]
               ELSE [ok |-> FALSE, class |-> "mkdirfail", dir |-> FALSE]
          ELSE [ok |-> TRUE, class |-> "ok", dir |-> TRUE]
     ELSE IF v.ok
          THEN [ok |-> FALSE, class |-> "errtext", dir |-> exists]
          ELSE [ok |-> FALSE, class |-> v.err, dir |-> exists]

(* find_kpm_file without the test of the extension. *)
FindFileByStem(fs, name) ==
  LET m == {p \in fs : StemStr(p) = Some(name)}
  IN IF m = {} THEN None ELSE Some(CHOOSE p \in m : TRUE)

(* find_kpm_file over a directory that was read: the entry whose stem is
   name and whose extension is kpm.  File names are unique in a directory,
   so at most one entry matches. *)
FindKpmFile(fs, name) ==
  LET m == {p \in fs : StemStr(p) = Some(name) /\ HasKpmExtension(p)}
  IN IF m = {} THEN None ELSE Some(CHOOSE p \in m : TRUE)

(* A non-zero exit of the helper's unload returned as an error. *)
UnloadNonzeroIsError(s) == IF s = "zero" THEN "find" ELSE "err"

(* unload_kpm after the helper has answered: Err when it could not be
   spawned, the file search on exit status zero, Ok otherwise. *)
UnloadAfterStatus(s) ==
  IF s = "spawnfail" THEN "err" ELSE IF s = "zero" THEN "find" ELSE "ok"

(* unload_kpm after fs::remove_file of the file it found *)
UnloadAfterDelete(r) == IF r = "ok" THEN "ok" ELSE "err"

(* load_kpm's result once path.to_str() succeeded: Err only when the helper
   could not be spawned; the exit status is only logged. *)
LoadKpmResult(s) == IF s = "spawnfail" THEN "err" ELSE "ok"

(* The module file taken off the disk by a load that succeeded. *)
FilesAfterLoadConsumed(fs, p, s) == IF s = "zero" THEN fs \ {p} ELSE fs

(* The directory after load_kpm(p) whose helper ended with s: load_kpm makes
   no file-system call, it only runs the helper. *)
FilesAfterLoad(fs, p, s) == fs

(* file_name_str.is_empty() of load_kpm_modules (lines 214-220): the stem is
   valid UTF-8 and empty. *)
EmptyLogicalName(p) == StemStr(p) # None /\ StemStr(p)[1] = <<>>

(* An error that ends the caller's loop, as `f(..)?` would. *)
ErrorEndsCaller(r) == IF r = "err" THEN "return" ELSE "continue"

(* `if let Err(e) = f(..) { log::..!(..) }` (lines 106, 116, 119, 196, 199)
   and the match of lines 224-227: the error r is logged and the caller goes
   on to its next statement. *)
AfterLoggedError(r) == "continue"

(* start_kpm_watcher returning remove_all_kpms' result *)
StartPropagatesPurge(r) == r

(* start_kpm_watcher's result after remove_all_kpms returned r *)
StartAfterPurge(r) == "ok"

Append2(f, t, e) == [f EXCEPT ![t] = Append(@, e)]

(* What load_kpm (lines 135-142) leaves in the log once path.to_str()
   succeeded: the helper's load of p that ended with s, and its result *)
LoadKpmLog(p, s) ==
  << <<"load", p, s, p \in files>>, <<"load_ret", p, LoadKpmResult(s)>> >>

(***************************************************************************)
(* State                                                                   *)
(*   helper      "missing" | "noexec" | "ok": the file at KPMMGR_PATH      *)
(*   dirExists, files       KPM_DIR and the file names in it               *)
(*   dirExists0, files0     their values when the run began                *)
(*   watcher     "Unsubscribed" | "Watching"; subscribed: ever Watching    *)
(*   mainOp      the public function the main thread runs                  *)
(*   pc, ret     each thread's position, and where unload_kpm returns to   *)
(*   ev, idx     the event a handler is processing and its current path    *)
(*   cur, uname, found, ures   locals of the loops and of unload_kpm       *)
(*   todo        directory entries the loop of remove_all_kpms or of       *)
(*               load_kpm_modules has not yet iterated                     *)
(*   log         per thread, the helper and file-system calls it made for  *)
(*               its current operation: <<call, argument, outcome>>; a     *)
(*               "load" entry also tells whether the file was on disk when *)
(*               the helper was invoked                                    *)
(*   result      what the main thread's function returned                  *)
(*   bootQuery   what the helper answered to start_kpm_watcher's version   *)
(*               query: "spawnfail" | "nonzero" | "errtext" | "text"       *)
(*   bootEnsure  how start_kpm_watcher's ensure_kpm_dir ended              *)
(*   purgeRes    "none" | "running" | "ok" | "err": remove_all_kpms        *)
(*   purgeEnsure how remove_all_kpms' ensure_kpm_dir ended                 *)
(*   purgeDirErr whether read_dir or one of its entries failed in          *)
(*               remove_all_kpms                                           *)
(*   bulkEnsure  how load_kpm_modules' ensure_kpm_dir ended                *)
(*   bulkDirErr  whether read_dir or one of its entries failed in          *)
(*               load_kpm_modules                                          *)
(*   loadCalls   the helper load invocations made by event handlers        *)
(*   nPaths      the paths carried by the events delivered so far, a watch *)
(*               error counting for one                                    *)
(*   createSeen  the paths with the kpm extension in the create events     *)
(*               delivered so far: all of them, and those that are valid   *)
(*               UTF-8                                                     *)
(***************************************************************************)
NoEvent == [kind |-> "None", paths |-> <<>>]

MainOps ==
  {[op |-> "start", arg |-> <<>>], [op |-> "purge", arg |-> <<>>],
   [op |-> "bulk", arg |-> <<>>]}
    \cup {[op |-> "unload", arg |-> n] : n \in Names}

EntryPc(o) ==
  CASE o.op = "start" -> "start"
    [] o.op = "purge" -> "purge_ensure"
    [] o.op = "bulk" -> "bulk_ensure"
    [] o.op = "unload" -> "unload_spawn"

Init ==
  /\ helper \in {"missing", "noexec", "ok"}
  /\ safeMode \in BOOLEAN
  /\ dirExists \in BOOLEAN
  /\ files \in (IF dirExists THEN SUBSET FileNames ELSE {{}})
  /\ dirExists0 = dirExists
  /\ files0 = files
  /\ watcher = "Unsubscribed"
  /\ subscribed = FALSE
  /\ mainOp \in MainOps
  /\ pc = [t \in Threads |-> IF t = "main" THEN EntryPc(mainOp) ELSE "idle"]
  /\ ret = [t \in Threads |-> "done"]
  /\ ev = [t \in Threads |-> NoEvent]
  /\ idx = [t \in Threads |-> 0]
  /\ cur = [t \in Threads |-> <<>>]
  /\ uname = [t \in Threads |-> IF t = "main" THEN mainOp.arg ELSE <<>>]
  /\ found = [t \in Threads |-> <<>>]
  /\ ures = [t \in Threads |-> "none"]
  /\ todo = {}
  /\ log = [t \in Threads |-> <<>>]
  /\ result = "none"
  /\ bootQuery = "none"
  /\ bootEnsure = "none"
  /\ purgeEnsure = "none"
  /\ purgeDirErr = FALSE
  /\ bulkEnsure = "none"
  /\ bulkDirErr = FALSE
  /\ purgeRes = (IF mainOp.op = "purge" THEN "running" ELSE "none")
  /\ loadCalls = 0
  /\ createSeen = [all |-> 0, str |-> 0]
  /\ nPaths = 0

envVars == <<helper, safeMode, dirExists0, files0, mainOp>>
bootVars == <<bootQuery, bootEnsure>>
bulkVars == <<bulkEnsure, bulkDirErr>>
purgeVars == <<purgeRes, purgeEnsure, purgeDirErr>>
evVars == <<ev, idx, loadCalls, createSeen, nPaths>>
unloadVars == <<ret, cur, uname, found, ures>>

Goto(t, l) == pc' = [pc EXCEPT ![t] = l]

(***************************************************************************)
(* start_kpm_watcher                                                       *)
(***************************************************************************)
(* line 71: ensure_kpm_dir()? *)
StartEnsure ==
  /\ pc["main"] = "start"
  /\ \E o \in VersionOutcomes, mk \in IoOutcomes :
       LET e == EnsureKpmDir(o, mk, dirExists) IN
         /\ bootQuery' = Observed(o)
         /\ bootEnsure' = e.class
         /\ dirExists' = e.dir
         /\ IF e.ok
            THEN Goto("main", "safe_check") /\ result' = result
            ELSE Goto("main", "done") /\ result' = "err"
  /\ UNCHANGED bulkVars
  /\ UNCHANGED <<envVars, evVars, unloadVars, purgeVars, files, watcher,
                 subscribed, todo, log>>

(* lines 74-80: in safe mode call remove_all_kpms *)
SafeCheck ==
  /\ pc["main"] = "safe_check"
  /\ IF safeMode
     THEN Goto("main", "purge_ensure") /\ purgeRes' = "running"
     ELSE Goto("main", "subscribe") /\ purgeRes' = purgeRes
  /\ UNCHANGED bulkVars
  /\ UNCHANGED <<envVars, evVars, unloadVars, bootVars, purgeEnsure,
                 purgeDirErr, dirExists, files, watcher, subscribed, todo,
                 log, result>>

(* lines 82-89: recommended_watcher(..)? and watcher.watch(..)? *)
Subscribe ==
  /\ pc["main"] = "subscribe"
  /\ \E r \in IoOutcomes :
       IF r = "ok"
       THEN /\ watcher' = "Watching"
            /\ subscribed' = TRUE
            /\ Goto("main", "return")
            /\ result' = result
       ELSE /\ UNCHANGED <<watcher, subscribed>>
            /\ Goto("main", "done")
            /\ result' = "err"
  /\ UNCHANGED bulkVars
  /\ UNCHANGED <<envVars, evVars, unloadVars, bootVars, purgeVars, dirExists,
                 files, todo, log>>

(* lines 90-91: Ok(()) and the end of the scope of the local `watcher`:
   dropping a notify watcher ends its watch. *)
StartReturn ==
  /\ pc["main"] = "return"
  /\ watcher' = "Unsubscribed"
  /\ result' = "ok"
  /\ Goto("main", "done")
  /\ UNCHANGED bulkVars
  /\ UNCHANGED <<envVars, evVars, unloadVars, bootVars, purgeVars, dirExists,
                 files, subscribed, todo, log>>

(***************************************************************************)
(* remove_all_kpms                                                         *)
(***************************************************************************)
(* remove_all_kpms returns r to its caller: to whoever called it directly,
   or to start_kpm_watcher (lines 76-79), which logs an error and returns
   Ok. *)
PurgeReturn(r) ==
  /\ purgeRes' = r
  /\ result' = (IF mainOp.op = "purge" THEN r ELSE StartAfterPurge(r))
  /\ Goto("main", "done")

(* line 190: ensure_kpm_dir()? *)
PurgeEnsure ==
  /\ pc["main"] = "purge_ensure"
  /\ \E o \in VersionOutcomes, mk \in IoOutcomes :
       LET e == EnsureKpmDir(o, mk, dirExists) IN
         /\ purgeEnsure' = e.class
         /\ dirExists' = e.dir
         /\ IF e.ok
            THEN Goto("main", "purge_read") /\ UNCHANGED <<purgeRes, result>>
            ELSE PurgeReturn("err")
  /\ UNCHANGED bulkVars
  /\ UNCHANGED <<envVars, evVars, unloadVars, bootVars, purgeDirErr, files,
                 watcher, subscribed, todo, log>>

(* line 192: fs::read_dir(KPM_DIR)? *)
PurgeReadDir ==
  /\ pc["main"] = "purge_read"
  /\ \E r \in IoOutcomes :
       IF r = "ok" /\ dirExists
       THEN /\ todo' = files
            /\ Goto("main", "purge_next")
            /\ UNCHANGED <<purgeRes, purgeDirErr, result>>
       ELSE /\ todo' = todo
            /\ purgeDirErr' = TRUE
            /\ PurgeReturn("err")
  /\ UNCHANGED bulkVars
  /\ UNCHANGED <<envVars, evVars, unloadVars, bootVars, purgeEnsure,
                 dirExists, files, watcher, subscribed, log>>

(* lines 192-198: one turn of the loop up to the call of unload_kpm, or the
   end of the iteration *)
PurgeNext ==
  /\ pc["main"] = "purge_next"
  /\ \/ /\ todo = {}
        /\ PurgeReturn("ok")
        /\ UNCHANGED <<todo, unloadVars, purgeDirErr>>
     \/ /\ todo # {}                     \* line 193: entry? fails
        /\ purgeDirErr' = TRUE
        /\ PurgeReturn("err")
        /\ UNCHANGED <<todo, unloadVars>>
     \/ \E p \in todo :
          /\ todo' = todo \ {p}
          /\ IF HasKpmExtension(p) /\ FileStem(p) # None
             THEN /\ cur' = [cur EXCEPT !["main"] = p]
                  /\ uname' = [uname EXCEPT !["main"] =
                                 ToStringLossy(FileStem(p)[1])]
                  /\ ret' = [ret EXCEPT !["main"] = "purge_delete"]
                  /\ Goto("main", "unload_spawn")
                  /\ UNCHANGED <<found, ures>>
             ELSE UNCHANGED <<pc, unloadVars>>
          /\ UNCHANGED <<purgeRes, purgeDirErr, result>>
  /\ UNCHANGED bulkVars
  /\ UNCHANGED <<envVars, evVars, bootVars, purgeEnsure, dirExists, files,
                 watcher, subscribed, log>>

(* lines 196-201: unload_kpm's error is logged, then fs::remove_file(&path),
   its error logged too *)
PurgeDelete ==
  /\ pc["main"] = "purge_delete"
  /\ IF AfterLoggedError(ures["main"]) = "continue"
     THEN /\ \E r \in RemoveOutcomes(cur["main"]) :
               /\ files' = (IF r = "ok" THEN files \ {cur["main"]} ELSE files)
               /\ log' = Append2(log, "main", <<"delete", cur["main"], r>>)
          /\ Goto("main", "purge_next")
          /\ UNCHANGED <<purgeRes, result>>
     ELSE /\ PurgeReturn("err")
          /\ UNCHANGED <<files, log>>
  /\ UNCHANGED bulkVars
  /\ UNCHANGED <<envVars, evVars, unloadVars, bootVars, purgeEnsure,
                 purgeDirErr, dirExists, watcher, subscribed, todo>>

(***************************************************************************)
(* load_kpm_modules                                                        *)
(***************************************************************************)
BulkReturn(r) == result' = r /\ Goto("main", "done")

(* line 210: ensure_kpm_dir()? *)
BulkEnsure ==
  /\ pc["main"] = "bulk_ensure"
  /\ \E o \in VersionOutcomes, mk \in IoOutcomes :
       LET e == EnsureKpmDir(o, mk, dirExists) IN
         /\ bulkEnsure' = e.class
         /\ dirExists' = e.dir
         /\ IF e.ok
            THEN Goto("main", "bulk_read") /\ result' = result
            ELSE BulkReturn("err")
  /\ UNCHANGED <<envVars, evVars, unloadVars, bootVars, purgeVars,
                 bulkDirErr, files, watcher, subscribed, todo, log>>

(* line 212: std::fs::read_dir(KPM_DIR)? *)
BulkReadDir ==
  /\ pc["main"] = "bulk_read"
  /\ \E r \in IoOutcomes :
       IF r = "ok" /\ dirExists
       THEN /\ todo' = files
            /\ Goto("main", "bulk_next")
            /\ UNCHANGED <<bulkDirErr, result>>
       ELSE /\ todo' = todo
            /\ bulkDirErr' = TRUE
            /\ BulkReturn("err")
  /\ UNCHANGED <<envVars, evVars, unloadVars, bootVars, purgeVars,
                 bulkEnsure, dirExists, files, watcher, subscribed, log>>

(* lines 212-231: one turn of the loop with its call of load_kpm (lines
   133-143), or the end of the iteration *)
BulkNext ==
  /\ pc["main"] = "bulk_next"
  /\ \/ /\ todo = {}
        /\ BulkReturn("ok")
        /\ UNCHANGED <<todo, bulkDirErr, log, files>>
     \/ /\ todo # {}                     \* line 213: entry? fails
        /\ bulkDirErr' = TRUE
        /\ BulkReturn("err")
        /\ UNCHANGED <<todo, log, files>>
     \/ \E p \in todo :
          /\ todo' = todo \ {p}
          /\ bulkDirErr' = bulkDirErr
          /\ IF EmptyLogicalName(p) \/ ~HasKpmExtension(p)
             THEN UNCHANGED <<pc, result, log, files>>
             ELSE IF ToStr(p) = None
             THEN /\ log' = Append2(log, "main", <<"load_ret", p, "err">>)
                  /\ files' = files
                  /\ IF AfterLoggedError("err") = "continue"
                     THEN UNCHANGED <<pc, result>>
                     ELSE BulkReturn("err")
             ELSE \E s \in SpawnOutcomes :
                    /\ log' = [log EXCEPT !["main"] = @ \o LoadKpmLog(p, s)]
                    /\ files' = FilesAfterLoad(files, p, s)
                    /\ IF AfterLoggedError(LoadKpmResult(s)) = "continue"
                       THEN UNCHANGED <<pc, result>>
                       ELSE BulkReturn("err")
  /\ UNCHANGED <<envVars, evVars, unloadVars, bootVars, purgeVars,
                 bulkEnsure, dirExists, watcher, subscribed>>

(***************************************************************************)
(* unload_kpm, run by thread t (the main thread or an event handler)       *)
(***************************************************************************)
(* unload_kpm returns r to the place it was called from *)
Finish(t, r) ==
  /\ ures' = [ures EXCEPT ![t] = r]
  /\ result' = (IF ret[t] = "done" THEN r ELSE result)
  /\ Goto(t, ret[t])

(* lines 147-152 and 161-165: the helper's unload and the branch on its
   status *)
UnloadSpawn(t) ==
  /\ pc[t] = "unload_spawn"
  /\ \E s \in SpawnOutcomes :
       LET a == UnloadAfterStatus(s) IN
         IF a = "find"
         THEN /\ log' = Append2(log, t, <<"unload", uname[t], s>>)
              /\ Goto(t, "unload_find")
              /\ UNCHANGED <<ures, result>>
         ELSE /\ log' = [log EXCEPT ![t] =
                           @ \o << <<"unload", uname[t], s>>,
                                   <<"unload_ret", uname[t], a>> >>]
              /\ Finish(t, a)
  /\ UNCHANGED bulkVars
  /\ UNCHANGED <<envVars, evVars, bootVars, purgeVars, dirExists, files,
                 watcher, subscribed, ret, cur, uname, found, todo>>

(* line 153 and find_kpm_file (lines 169-186) *)
UnloadFind(t) ==
  /\ pc[t] = "unload_find"
  /\ IF ~dirExists
     THEN /\ log' = [log EXCEPT ![t] =
                       @ \o << <<"find", uname[t], "nodir">>,
                               <<"unload_ret", uname[t], "ok">> >>]
          /\ Finish(t, "ok")
          /\ found' = found
     ELSE \E r \in IoOutcomes :
            IF r = "fail"
            THEN /\ log' = [log EXCEPT ![t] =
                              @ \o << <<"find", uname[t], "fail">>,
                                      <<"unload_ret", uname[t], "err">> >>]
                 /\ Finish(t, "err")
                 /\ found' = found
            ELSE LET f == FindKpmFile(files, uname[t]) IN
                   IF f = None
                   THEN /\ log' = [log EXCEPT ![t] =
                                     @ \o << <<"find", uname[t], "absent">>,
                                             <<"unload_ret", uname[t], "ok">> >>]
                        /\ Finish(t, "ok")
                        /\ found' = found
                   ELSE /\ log' = Append2(log, t, <<"find", uname[t], "found">>)
                        /\ found' = [found EXCEPT ![t] = f[1]]
                        /\ Goto(t, "unload_delete")
                        /\ UNCHANGED <<ures, result>>
  /\ UNCHANGED bulkVars
  /\ UNCHANGED <<envVars, evVars, bootVars, purgeVars, dirExists, files,
                 watcher, subscribed, ret, cur, uname, todo>>

(* lines 155-160: fs::remove_file of the file found, its error returned *)
UnloadDelete(t) ==
  /\ pc[t] = "unload_delete"
  /\ \E r \in RemoveOutcomes(found[t]) :
       /\ files' = (IF r = "ok" THEN files \ {found[t]} ELSE files)
       /\ log' = [log EXCEPT ![t] =
                    @ \o << <<"unlink", found[t], r>>,
                            <<"unload_ret", uname[t], UnloadAfterDelete(r)>> >>]
       /\ Finish(t, UnloadAfterDelete(r))
  /\ UNCHANGED bulkVars
  /\ UNCHANGED <<envVars, evVars, bootVars, purgeVars, dirExists, watcher,
                 subscribed, ret, cur, uname, found, todo>>

UnloadNext(t) == UnloadSpawn(t) \/ UnloadFind(t) \/ UnloadDelete(t)

(***************************************************************************)
(* The watcher's callback, run by handler thread h                         *)
(***************************************************************************)
EventKinds == {"Create", "Remove", "Modify", "Other"}

PathSeqs == UNION {[1..n -> FileNames] : n \in 1..MaxPaths}

(* The paths of FileNames that end in the module extension, and those of
   them that are valid UTF-8. *)
KpmNamed ==
  { <<"a", ".", "k", "p", "m">>,
    <<"b", ".", "k", "p", "m">>,
    <<"X", ".", "k", "p", "m">> }

KpmNamedStr == { <<"a", ".", "k", "p", "m">>, <<"b", ".", "k", "p", "m">> }

CountIn(ps, S) == Cardinality({i \in 1..Len(ps) : ps[i] \in S})

(* A modify event handled as a create event. *)
DispatchModifyAsCreate(k) ==
  CASE k \in {"Create", "Modify"} -> "create"
    [] k = "Remove" -> "remove"
    [] OTHER -> "idle"

(* handle_kpm_event's match on the event kind *)
Dispatch(k) ==
  CASE k = "Create" -> "create"
    [] k = "Remove" -> "remove"
    [] k = "Modify" -> "modify"
    [] OTHER -> "idle"

(* lines 82-87 and 94-101: the subscribed watcher delivers an event and
   handle_kpm_event dispatches on its kind *)
HandleKpmEvent(h) ==
  /\ pc[h] = "idle"
  /\ watcher = "Watching"
  /\ \E k \in EventKinds, ps \in PathSeqs :
       /\ nPaths + Len(ps) <= MaxPaths
       /\ nPaths' = nPaths + Len(ps)
       /\ ev' = [ev EXCEPT ![h] = [kind |-> k, paths |-> ps]]
       /\ createSeen' = (IF k = "Create"
                         THEN [all |-> createSeen.all + CountIn(ps, KpmNamed),
                               str |-> createSeen.str + CountIn(ps, KpmNamedStr)]
                         ELSE createSeen)
       /\ Goto(h, Dispatch(k))
       /\ idx' = [idx EXCEPT ![h] = IF Dispatch(k) = "idle" THEN 0 ELSE 1]
  /\ log' = [log EXCEPT ![h] = <<>>]
  /\ UNCHANGED bulkVars
  /\ UNCHANGED <<envVars, unloadVars, bootVars, purgeVars, dirExists, files,
                 watcher, subscribed, todo, result, loadCalls>>

(* lines 83-86: the watcher reports an error instead of an event and the
   callback logs it *)
HandleWatchError(h) ==
  /\ pc[h] = "idle"
  /\ watcher = "Watching"
  /\ nPaths < MaxPaths
  /\ nPaths' = nPaths + 1
  /\ ev' = [ev EXCEPT ![h] = [kind |-> "WatchError", paths |-> <<>>]]
  /\ log' = [log EXCEPT ![h] = <<>>]
  /\ UNCHANGED bulkVars
  /\ UNCHANGED <<envVars, unloadVars, bootVars, purgeVars, dirExists, files,
                 watcher, subscribed, todo, result, loadCalls, createSeen,
                 pc, idx>>

(* Where the loop over an event's paths goes after a call that returned r *)
NextIdx(h, r) ==
  IF AfterLoggedError(r) = "continue" THEN idx[h] + 1 ELSE Len(ev[h].paths) + 1

(* handle_create_event (lines 103-111) with load_kpm (lines 133-143): one
   turn of the loop *)
HandleCreate(h) ==
  /\ pc[h] = "create"
  /\ IF idx[h] > Len(ev[h].paths)
     THEN /\ Goto(h, "idle")
          /\ idx' = [idx EXCEPT ![h] = 0]
          /\ UNCHANGED <<log, loadCalls, files>>
     ELSE LET p == ev[h].paths[idx[h]] IN
       /\ pc' = pc
       /\ IF ~HasKpmExtension(p)
          THEN /\ idx' = [idx EXCEPT ![h] = @ + 1]
               /\ UNCHANGED <<log, loadCalls, files>>
          ELSE IF ToStr(p) = None
          THEN /\ log' = Append2(log, h, <<"load_ret", p, "err">>)
               /\ idx' = [idx EXCEPT ![h] = NextIdx(h, "err")]
               /\ UNCHANGED <<loadCalls, files>>
          ELSE \E s \in SpawnOutcomes :
                 /\ log' = [log EXCEPT ![h] = @ \o LoadKpmLog(p, s)]
                 /\ files' = FilesAfterLoad(files, p, s)
                 /\ idx' = [idx EXCEPT ![h] = NextIdx(h, LoadKpmResult(s))]
                 /\ loadCalls' = loadCalls + 1
  /\ UNCHANGED bulkVars
  /\ UNCHANGED <<envVars, unloadVars, bootVars, purgeVars, dirExists,
                 watcher, subscribed, todo, result, ev, createSeen, nPaths>>

(* handle_remove_event (lines 113-118): one turn of the loop up to the call
   of unload_kpm *)
HandleRemove(h) ==
  /\ pc[h] = "remove"
  /\ IF idx[h] > Len(ev[h].paths)
     THEN /\ Goto(h, "idle")
          /\ idx' = [idx EXCEPT ![h] = 0]
          /\ cur' = [cur EXCEPT ![h] = <<>>]
          /\ uname' = [uname EXCEPT ![h] = <<>>]
          /\ found' = [found EXCEPT ![h] = <<>>]
          /\ ures' = [ures EXCEPT ![h] = "none"]
          /\ ret' = [ret EXCEPT ![h] = "done"]
     ELSE LET p == ev[h].paths[idx[h]] IN
       IF StemStr(p) = None
       THEN /\ idx' = [idx EXCEPT ![h] = @ + 1]
            /\ UNCHANGED <<pc, unloadVars>>
       ELSE /\ cur' = [cur EXCEPT ![h] = p]
            /\ uname' = [uname EXCEPT ![h] = StemStr(p)[1]]
            /\ ret' = [ret EXCEPT ![h] = "remove_delete"]
            /\ Goto(h, "unload_spawn")
            /\ UNCHANGED <<idx, found, ures>>
  /\ UNCHANGED bulkVars
  /\ UNCHANGED <<envVars, bootVars, purgeVars, dirExists, files, watcher,
                 subscribed, todo, log, result, ev, loadCalls, createSeen,
                 nPaths>>

(* handle_remove_event (lines 116-121): unload_kpm's error is logged, then
   fs::remove_file(&path), its error logged too *)
RemoveDelete(h) ==
  /\ pc[h] = "remove_delete"
  /\ IF AfterLoggedError(ures[h]) = "continue"
     THEN \E r \in RemoveOutcomes(cur[h]) :
            /\ files' = (IF r = "ok" THEN files \ {cur[h]} ELSE files)
            /\ log' = Append2(log, h, <<"delete", cur[h], r>>)
            /\ idx' = [idx EXCEPT ![h] =
                         NextIdx(h, IF r = "ok" THEN "ok" ELSE "err")]
     ELSE /\ idx' = [idx EXCEPT ![h] = NextIdx(h, ures[h])]
          /\ UNCHANGED <<files, log>>
  /\ Goto(h, "remove")
  /\ UNCHANGED bulkVars
  /\ UNCHANGED <<envVars, unloadVars, bootVars, purgeVars, dirExists,
                 watcher, subscribed, todo, result, ev, loadCalls,
                 createSeen, nPaths>>

(* handle_modify_event (lines 126-130): logs every path *)
HandleModify(h) ==
  /\ pc[h] = "modify"
  /\ Goto(h, "idle")
  /\ idx' = [idx EXCEPT ![h] = 0]
  /\ UNCHANGED bulkVars
  /\ UNCHANGED <<envVars, unloadVars, bootVars, purgeVars, dirExists, files,
                 watcher, subscribed, todo, log, result, ev, loadCalls,
                 createSeen, nPaths>>

HandlerNext(h) ==
  \/ HandleKpmEvent(h)
  \/ HandleWatchError(h)
  \/ HandleCreate(h)
  \/ HandleRemove(h)
  \/ RemoveDelete(h)
  \/ HandleModify(h)

(***************************************************************************)
(* Specifications                                                          *)
(***************************************************************************)
MainNext ==
  \/ StartEnsure
  \/ SafeCheck
  \/ Subscribe
  \/ StartReturn
  \/ PurgeEnsure
  \/ PurgeReadDir
  \/ PurgeNext
  \/ PurgeDelete
  \/ BulkEnsure
  \/ BulkReadDir
  \/ BulkNext

(* The main thread, and the watcher's callbacks delivered one at a time. *)
Next ==
  \/ MainNext
  \/ \E t \in {"main", "h1"} : UnloadNext(t)
  \/ HandlerNext("h1")

Spec == Init /\ [][Next]_vars

(* A normal-mode bootstrap with callbacks delivered on two threads. *)
InitConc == Init /\ mainOp.op = "start" /\ ~safeMode /\ helper = "ok"

NextConc ==
  \/ StartEnsure
  \/ SafeCheck
  \/ Subscribe
  \/ StartReturn
  \/ \E h \in {"h1", "h2"} : UnloadNext(h) \/ HandlerNext(h)

SpecConc == InitConc /\ [][NextConc]_vars

(***************************************************************************)
(* Properties                                                              *)
(***************************************************************************)
Entries(t, call) == {i \in 1..Len(log[t]) : log[t][i][1] = call}

MainDone == pc["main"] = "done"

(* C1: when the helper is unavailable at bootstrap (the version query cannot
   be spawned, exits non-zero, or returns text that indicates an error),
   start_kpm_watcher fails and, in that run, the directory is not created,
   no helper load or unload is invoked, no file is deleted, the purge does
   not run and the watcher is never subscribed. *)
C1_NoBootstrapWithoutHelper ==
  (mainOp.op = "start" /\ bootQuery \in {"spawnfail", "nonzero", "errtext"}) =>
    /\ MainDone /\ result = "err"
    /\ dirExists = dirExists0 /\ files = files0
    /\ \A t \in Threads : log[t] = <<>>
    /\ loadCalls = 0
    /\ purgeRes = "none"
    /\ ~subscribed /\ watcher = "Unsubscribed"

C1_Witness ==
  /\ mainOp.op = "start" /\ bootQuery = "errtext" /\ MainDone
  /\ ~dirExists0 /\ ~dirExists /\ result = "err"

(* C2: when bootstrap succeeds outside safe mode, the watcher is still in
   the Watching state after start_kpm_watcher has returned. *)
C2_WatcherStaysWatching ==
  (mainOp.op = "start" /\ ~safeMode /\ MainDone /\ result = "ok") =>
    watcher = "Watching"

(* C3 as stated: when the helper is available and the device is in safe
   mode, start_kpm_watcher runs the purge, never subscribes the watcher and
   returns success. *)
C3_SafeModeAlwaysSucceeds ==
  (mainOp.op = "start" /\ bootQuery = "text" /\ safeMode) =>
    /\ ~subscribed /\ watcher = "Unsubscribed"
    /\ MainDone => (result = "ok" /\ purgeRes \in {"ok", "err"})

(* C3 amended: when the helper is available, the module directory exists or
   could be created, and the device is in safe mode, start_kpm_watcher runs
   the purge, never subscribes the watcher and returns success whatever
   happens during the purge. *)
C3_SafeModeSucceedsOnceDirEnsured ==
  (mainOp.op = "start" /\ bootQuery = "text" /\ bootEnsure # "mkdirfail"
     /\ safeMode) =>
    /\ ~subscribed /\ watcher = "Unsubscribed"
    /\ MainDone => (result = "ok" /\ purgeRes \in {"ok", "err"})

C3_Witness ==
  /\ mainOp.op = "start" /\ safeMode /\ MainDone
  /\ result = "ok" /\ purgeRes = "err"
  /\ \E i \in Entries("main", "unload_ret") : log["main"][i][3] = "err"
  /\ \E i \in Entries("main", "delete") : log["main"][i][3] = "denied"

(* The module files the directory held when the run began, and the name
   remove_all_kpms passes to the helper for one of them: its stem, U+FFFD in
   place of every byte that is not valid UTF-8. *)
ModuleFiles0 == files0 \cap KpmNamed

StemOf(f) == SubSeq(f, 1, Len(f) - 4)

PassedName(f) == [i \in 1..(Len(f) - 4) |-> IF f[i] = "X" THEN "R" ELSE f[i]]

UnloadsOf(t, n) == {i \in Entries(t, "unload") : log[t][i][2] = n}

PurgeEnded == purgeRes \in {"ok", "err"}

NoDeleteDenied ==
  \A i \in Entries("main", "delete") \cup Entries("main", "unlink") :
    log["main"][i][3] # "denied"

(* C4 as stated: remove_all_kpms over a readable directory that holds N
   module files invokes the helper unload exactly N times, once per module
   file with that file's stem, whatever the per-file outcomes. *)
C4_PurgeUnloadsEachStemOnce ==
  (PurgeEnded /\ ~purgeDirErr) =>
    /\ Cardinality(Entries("main", "unload")) = Cardinality(ModuleFiles0)
    /\ \A f \in ModuleFiles0 : Cardinality(UnloadsOf("main", StemOf(f))) = 1

(* C4 amended: remove_all_kpms whose helper check (ensure_kpm_dir) succeeds,
   over a readable directory that holds N module files, invokes the helper
   unload exactly N times, once per module file, passing the file's stem (a
   stem that is not valid UTF-8 is passed lossily converted), whatever the
   per-file unload and deletion outcomes. *)
C4_PurgeUnloadsEachModuleOnce ==
  (PurgeEnded /\ purgeEnsure = "ok" /\ ~purgeDirErr) =>
    /\ Cardinality(Entries("main", "unload")) = Cardinality(ModuleFiles0)
    /\ \A f \in ModuleFiles0 : Cardinality(UnloadsOf("main", PassedName(f))) = 1
    /\ \A f \in ModuleFiles0 \cap KpmNamedStr :
         Cardinality(UnloadsOf("main", StemOf(f))) = 1

C4_Witness ==
  /\ PurgeEnded /\ purgeEnsure = "ok" /\ ~purgeDirErr
  /\ Cardinality(ModuleFiles0) = 3
  /\ Cardinality(Entries("main", "unload")) = 3
  /\ \E i \in Entries("main", "unload") : log["main"][i][3] = "spawnfail"
  /\ \E i \in Entries("main", "unlink") : log["main"][i][3] = "denied"
  /\ \E i \in Entries("main", "delete") : log["main"][i][3] = "denied"

(* C5 as stated: after a safe-mode bootstrap over a directory that contains
   module files, the helper unload has been invoked for every module file
   and, when file deletions succeed, no file with the module extension
   remains, whatever the exit status of the unload calls. *)
C5_SafeModeEmptiesDirectory ==
  (mainOp.op = "start" /\ safeMode /\ MainDone /\ result = "ok"
     /\ NoDeleteDenied) =>
    /\ \A f \in ModuleFiles0 : UnloadsOf("main", PassedName(f)) # {}
    /\ files \cap KpmNamed = {}

(* C5 amended: after a safe-mode bootstrap whose purge passed its own helper
   check (ensure_kpm_dir) and could read the directory, the helper unload
   has been invoked for every module file and, when file deletions succeed,
   no file with the module extension remains, whatever the outcome of the
   unload calls. *)
C5_SafeModePurgeEmptiesDirectory ==
  (mainOp.op = "start" /\ safeMode /\ MainDone /\ result = "ok"
     /\ purgeEnsure = "ok" /\ ~purgeDirErr /\ NoDeleteDenied) =>
    /\ \A f \in ModuleFiles0 : UnloadsOf("main", PassedName(f)) # {}
    /\ files \cap KpmNamed = {}

C5_Witness ==
  /\ mainOp.op = "start" /\ safeMode /\ MainDone /\ result = "ok"
  /\ purgeEnsure = "ok" /\ ~purgeDirErr /\ NoDeleteDenied
  /\ ModuleFiles0 = KpmNamedStr
  /\ \E i \in Entries("main", "unload") : log["main"][i][3] = "zero"
  /\ \E i \in Entries("main", "unload") : log["main"][i][3] = "nonzero"
  /\ files \cap KpmNamed = {}

Handlers == {"h1", "h2"}

AllIdle == \A h \in Handlers : pc[h] = "idle"

(* The arguments of thread t's calls of one kind, in the order made. *)
ArgsOf(t, call) ==
  LET L == SelectSeq(log[t], LAMBDA e : e[1] = call)
  IN [i \in 1..Len(L) |-> L[i][2]]

(* C6 as stated: for every create notification the helper load is invoked
   exactly once for each path that ends in the module extension, with that
   path as argument, and never for another path; over any sequence of events
   the load invocations number the module-extension paths of its create
   notifications. *)
C6_OneLoadPerModulePath ==
  AllIdle =>
    /\ loadCalls = createSeen.all
    /\ \A h \in Handlers :
         ev[h].kind = "Create" =>
           ArgsOf(h, "load") = SelectSeq(ev[h].paths, LAMBDA p : p \in KpmNamed)

(* C6 amended: the same, for the paths that end in the module extension and
   are valid UTF-8; for a path that is not valid UTF-8 load_kpm returns an
   error without invoking the helper. *)
C6_OneLoadPerValidModulePath ==
  AllIdle =>
    /\ loadCalls = createSeen.str
    /\ \A h \in Handlers :
         ev[h].kind = "Create" =>
           ArgsOf(h, "load") = SelectSeq(ev[h].paths, LAMBDA p : p \in KpmNamedStr)

C6_Witness ==
  /\ AllIdle /\ nPaths = 2 /\ loadCalls = 2
  /\ ev["h1"].kind = "Create" /\ Len(ev["h1"].paths) = 1
  /\ \E i \in Entries("h1", "load") : log["h1"][i][3] = "spawnfail"

(* C7: load_kpm returns success only when the helper's load exits with
   status zero; when the helper cannot be spawned or exits non-zero it
   returns an error. *)
C7_LoadOkOnlyOnExitZero ==
  \A h \in Handlers : \A i \in Entries(h, "load") :
    (log[h][i + 1][3] = "ok") <=> (log[h][i][3] = "zero")

(* No file of the directory is the module file of name n. *)
NoModuleFileFor(n) == \A f \in files0 : f # n \o <<".", "k", "p", "m">>

HelperSpawned(t) ==
  \E i \in Entries(t, "unload") : log[t][i][3] # "spawnfail"

(* C8 as stated: unload_kpm called with a name for which no module file is
   present (the directory may be missing) returns success whenever the
   helper could be spawned, and deletes nothing. *)
C8_UnloadOfAbsentSucceeds ==
  (mainOp.op = "unload" /\ NoModuleFileFor(mainOp.arg) /\ MainDone
     /\ HelperSpawned("main")) =>
    (result = "ok" /\ files = files0 /\ dirExists = dirExists0)

(* C8 amended: ... returns success whenever the helper could be spawned and
   the directory, when it exists, could be read; it deletes nothing. *)
C8_UnloadOfAbsentSucceedsIfReadable ==
  (mainOp.op = "unload" /\ NoModuleFileFor(mainOp.arg) /\ MainDone) =>
    /\ files = files0 /\ dirExists = dirExists0
    /\ (HelperSpawned("main")
          /\ \A i \in Entries("main", "find") : log["main"][i][3] # "fail")
         => result = "ok"

C8_Witness ==
  /\ mainOp = [op |-> "unload", arg |-> <<"a">>]
  /\ files0 = {<<"a", ".", "t", "x", "t">>, <<"b", ".", "k", "p", "m">>}
  /\ MainDone /\ result = "ok"
  /\ \E i \in Entries("main", "unload") : log["main"][i][3] = "zero"

C8_WitnessNoDir ==
  /\ mainOp.op = "unload" /\ ~dirExists0
  /\ MainDone /\ result = "ok"
  /\ \E i \in Entries("main", "unload") : log["main"][i][3] = "zero"

(* Both handlers are running a remove event for the same single path, of a
   file that was in the directory. *)
SameRemoveRunning ==
  /\ \A h \in Handlers : ev[h].kind = "Remove" /\ pc[h] # "idle"
  /\ ev["h1"].paths = ev["h2"].paths
  /\ Len(ev["h1"].paths) = 1
  /\ ev["h1"].paths[1] \in files0

(* Thread t deleted file p. *)
DeletedBy(t, p) ==
  \E i \in 1..Len(log[t]) :
    log[t][i] \in {<<"unlink", p, "ok">>, <<"delete", p, "ok">>}

(* C9: when two remove handlers for the same path run concurrently, a handler
   that comes upon the file the other handler already deleted treats it as
   success: its unload_kpm does not return an error for it and it reports no
   deletion failure for it. *)
C9_ConcurrentRemoveTolerated ==
  SameRemoveRunning =>
    \A h \in Handlers : \A o \in Handlers \ {h} :
      LET p == ev[h].paths[1] IN
        DeletedBy(o, p) =>
          /\ <<"unlink", p, "notfound">> \notin Range(log[h])
          /\ <<"delete", p, "notfound">> \notin Range(log[h])

(* C9, the part about unload_kpm alone: no unload_kpm of two concurrent
   remove handlers returns an error because the file it found is gone. *)
C9_UnloadToleratesRace ==
  SameRemoveRunning =>
    \A h \in Handlers : \A i \in Entries(h, "unlink") :
      log[h][i][3] # "notfound"

(* The paths of a remove event whose stem can be derived. *)
Stemmed(ps) == SelectSeq(ps, LAMBDA p : StemStr(p) # None)

(* C10: for every path of a remove event whose file stem can be derived the
   handler first calls unload_kpm with that stem and only afterwards
   attempts to delete the path, whatever unload_kpm returned and whether or
   not the file still exists; the handler then goes on to completion. *)
C10_UnloadThenDelete ==
  \A h \in Handlers :
    ev[h].kind = "Remove" =>
      /\ \A i \in Entries(h, "delete") :
           /\ i > 2
           /\ log[h][i - 1][1] = "unload_ret"
           /\ log[h][i - 1][2] = StemStr(log[h][i][2])[1]
           /\ \E j \in Entries(h, "unload") :
                j < i /\ log[h][j][2] = StemStr(log[h][i][2])[1]
      /\ Len(ArgsOf(h, "delete")) <= Len(ArgsOf(h, "unload_ret"))
      /\ Len(ArgsOf(h, "unload_ret")) <= Len(ArgsOf(h, "delete")) + 1
      /\ pc[h] = "idle" =>
           /\ ArgsOf(h, "delete") = Stemmed(ev[h].paths)
           /\ Len(ArgsOf(h, "unload")) = Len(Stemmed(ev[h].paths))
      /\ pc[h] # "idle" => ENABLED (UnloadNext(h) \/ HandlerNext(h))

C10_Witness ==
  /\ pc["h1"] = "idle" /\ ev["h1"].kind = "Remove"
  /\ ev["h1"].paths = << <<"a", ".", "k", "p", "m">>, <<"b", ".", "k", "p", "m">> >>
  /\ <<"a", ".", "k", "p", "m">> \notin files0
  /\ log["h1"][1] = <<"unload", <<"a">>, "spawnfail">>
  /\ log["h1"][3] = <<"delete", <<"a", ".", "k", "p", "m">>, "notfound">>
  /\ log["h1"][4] = <<"unload", <<"b">>, "nonzero">>
  /\ Len(ArgsOf("h1", "delete")) = 2

(* The paths of an event that end in the module extension. *)
ModulePaths(ps) == SelectSeq(ps, LAMBDA p : p \in KpmNamed)

(* C11: no event handler ends the watcher.  Every step of a handler leaves
   the watcher's state and the result of start_kpm_watcher as they were; a
   handler that has begun can always take its next step, whatever the helper
   and the file system answered; and when it has returned, every path of its
   event has been processed: load_kpm was called for every module path of a
   create event and unload_kpm and the deletion for every stemmed path of a
   remove event, also after a failure on an earlier path.  A modify event,
   an event of another kind and a watch error make no call at all. *)
C11_HandlersNeverEndWatcher ==
  /\ [][\A h \in Handlers :
          (HandlerNext(h) \/ UnloadNext(h)) =>
            UNCHANGED <<watcher, subscribed, result>>]_vars
  /\ [](\A h \in Handlers :
          /\ pc[h] # "idle" => ENABLED (UnloadNext(h) \/ HandlerNext(h))
          /\ (pc[h] = "idle" /\ ev[h].kind = "Create") =>
               ArgsOf(h, "load_ret") = ModulePaths(ev[h].paths)
          /\ (pc[h] = "idle" /\ ev[h].kind = "Remove") =>
               /\ Len(ArgsOf(h, "unload_ret")) = Len(Stemmed(ev[h].paths))
               /\ ArgsOf(h, "delete") = Stemmed(ev[h].paths)
          /\ ev[h].kind \in {"Modify", "Other", "WatchError"} =>
               log[h] = <<>>)

C11_Witness ==
  /\ pc["h1"] = "idle" /\ ev["h1"].kind = "Create"
  /\ watcher = "Watching"
  /\ ev["h1"].paths = << <<"X", ".", "k", "p", "m">>, <<"a", ".", "k", "p", "m">> >>
  /\ log["h1"][1] = <<"load_ret", <<"X", ".", "k", "p", "m">>, "err">>
  /\ log["h1"][2][1] = "load" /\ log["h1"][2][3] = "spawnfail"
  /\ Len(log["h1"]) = 3

(* C12: when the helper's unload exited zero and the deletion of the module
   file found for the name is refused, unload_kpm still returns success. *)
C12_DeleteFailureNotEscalated ==
  \A t \in Threads : \A i \in Entries(t, "unlink") :
    log[t][i][3] = "denied" => log[t][i + 1][3] = "ok"

(* C13: when the helper's unload exits non-zero, unload_kpm returns success:
   a direct caller gets Ok and no file is touched, and remove_all_kpms and
   the remove handler go on to their deletion of the path as after any
   unload_kpm that returned success. *)
C13_NonzeroUnloadIsSuccess ==
  \A t \in Threads : \A i \in Entries(t, "unload") :
    log[t][i][3] = "nonzero" =>
      /\ Len(log[t]) > i
      /\ log[t][i + 1] = <<"unload_ret", log[t][i][2], "ok">>
      /\ Len(log[t]) = i + 1 =>
           /\ pc[t] \in {"purge_delete", "remove_delete", "done"}
           /\ ures[t] = "ok"
           /\ (t = "main" /\ mainOp.op = "unload") =>
                (MainDone /\ result = "ok" /\ files = files0)
      /\ Len(log[t]) > i + 1 => log[t][i + 2][1] = "delete"

C13_Witness ==
  /\ mainOp.op = "purge" /\ MainDone /\ result = "ok"
  /\ Len(log["main"]) = 6
  /\ log["main"][1][1] = "unload" /\ log["main"][1][3] = "nonzero"
  /\ log["main"][3][1] = "delete" /\ log["main"][3][3] = "ok"
  /\ log["main"][4][1] = "unload" /\ log["main"][4][3] = "nonzero"

(* C14: whenever ensure_kpm_dir succeeded (in start_kpm_watcher, in
   remove_all_kpms or in load_kpm_modules) the helper path exists with an
   executable bit, and at bootstrap the version query had succeeded with a
   text that reports no error; when the helper path is missing or not
   executable nothing proceeds: the function fails, the directory is not
   created, no file is deleted, no helper load or unload is invoked and the
   watcher is never subscribed. *)
C14_AvailabilityNeedsBoth ==
  /\ bootEnsure = "ok" => (helper = "ok" /\ bootQuery = "text")
  /\ purgeEnsure = "ok" => helper = "ok"
  /\ bulkEnsure = "ok" => helper = "ok"
  /\ (mainOp.op = "start" /\ bootQuery # "none" /\ bootQuery # "text") =>
       (MainDone /\ pc["main"] = "done" /\ result = "err" /\ ~subscribed)
  /\ (helper # "ok" /\ mainOp.op \in {"start", "purge", "bulk"}) =>
       /\ dirExists = dirExists0 /\ files = files0
       /\ \A t \in Threads : log[t] = <<>>
       /\ ~subscribed /\ loadCalls = 0
       /\ pc["main"] \in {"start", "purge_ensure", "bulk_ensure", "done"}
       /\ MainDone => result = "err"

C14_Witness ==
  /\ mainOp.op = "bulk" /\ helper = "noexec" /\ ~dirExists0
  /\ MainDone /\ result = "err" /\ ~dirExists /\ bulkEnsure = "spawnfail"

C14_WitnessProceeds ==
  /\ mainOp.op = "start" /\ bootEnsure = "ok" /\ helper = "ok"
  /\ ~dirExists0 /\ dirExists /\ subscribed

(* C15: loading leaves the files of the directory as they were: every step
   of the create handler and of load_kpm_modules keeps the set of files, for
   every outcome of the helper, so that after load_kpm_modules the directory
   holds the files it held before, the loaded ones among them. *)
C15_LoadingKeepsFiles ==
  /\ [][((\E h \in Handlers : HandleCreate(h))
           \/ BulkEnsure \/ BulkReadDir \/ BulkNext) => files' = files]_vars
  /\ [](mainOp.op = "bulk" =>
          /\ files = files0
          /\ \A i \in Entries("main", "load") : log["main"][i][2] \in files)

C15_Witness ==
  /\ mainOp.op = "bulk" /\ MainDone /\ result = "ok"
  /\ files0 = KpmNamedStr /\ files = files0
  /\ \E i \in Entries("main", "load") : log["main"][i][3] = "zero"
  /\ \E i \in Entries("main", "load") : log["main"][i][3] = "nonzero"

(* C16: a modify event and an event of a kind other than create, remove and
   modify change nothing: their delivery and their handling invoke no
   helper, create and delete no file and leave the watcher's state as it
   was. *)
C16_ModifyAndOtherChangeNothing ==
  /\ [][\A h \in Handlers :
          (HandleModify(h)
             \/ (HandleKpmEvent(h) /\ ev'[h].kind \in {"Modify", "Other"})) =>
            /\ UNCHANGED <<files, dirExists, watcher, subscribed, loadCalls,
                           result>>
            /\ log'[h] = <<>>]_vars
  /\ [](\A h \in Handlers :
          ev[h].kind \in {"Modify", "Other"} =>
            (pc[h] \in {"modify", "idle"} /\ log[h] = <<>>))

C16_Witness ==
  /\ ev["h1"].kind = "Modify" /\ pc["h1"] = "idle"
  /\ ev["h1"].paths = << <<"a", ".", "k", "p", "m">>, <<"b", ".", "k", "p", "m">> >>
  /\ <<"a", ".", "k", "p", "m">> \in files
  /\ watcher = "Watching"

C16_WitnessOther ==
  /\ ev["h1"].kind = "Other" /\ pc["h1"] = "idle" /\ nPaths = 2
  /\ <<"a", ".", "k", "p", "m">> \in files

(* C17: load_kpm_modules over a readable directory, the helper being
   available, calls load_kpm exactly once for every file with the module
   extension and for no other file, the helper being invoked once for each
   of them whose path is valid UTF-8; a load that failed does not end the
   batch, and load_kpm_modules returns Ok after the last entry. *)
C17_BulkLoadsEachModuleOnce ==
  (mainOp.op = "bulk" /\ MainDone /\ bulkEnsure = "ok" /\ ~bulkDirErr) =>
    /\ result = "ok"
    /\ Cardinality(Entries("main", "load_ret")) = Cardinality(ModuleFiles0)
    /\ \A f \in ModuleFiles0 :
         Cardinality({i \in Entries("main", "load_ret") : log["main"][i][2] = f}) = 1
    /\ Cardinality(Entries("main", "load")) = Cardinality(ModuleFiles0 \cap KpmNamedStr)
    /\ \A f \in ModuleFiles0 \cap KpmNamedStr :
         Cardinality({i \in Entries("main", "load") : log["main"][i][2] = f}) = 1

C17_Witness ==
  /\ mainOp.op = "bulk" /\ MainDone /\ result = "ok"
  /\ files0 = FileNames
  /\ Cardinality(Entries("main", "load_ret")) = 3
  /\ \E i \in Entries("main", "load") : log["main"][i][3] = "spawnfail"
  /\ \E i \in Entries("main", "load") : log["main"][i][3] = "zero"

(* C18: a create handler does not invoke the helper's load for a file that
   was in the directory and has been removed before the event is handled. *)
C18_NoLoadOfRemovedFile ==
  \A h \in Handlers : \A i \in Entries(h, "load") :
    log[h][i][2] \in files0 => log[h][i][4]

(* C19: a remove event whose paths all have another extension than the
   module extension deletes no module file: every file with the module
   extension that was in the directory before the handler ran is still
   there. *)
C19_RemoveOfOtherFileKeepsModules ==
  (/\ mainOp.op = "start"
   /\ ev["h1"].kind = "Remove"
   /\ nPaths = Len(ev["h1"].paths)
   /\ \A i \in 1..Len(ev["h1"].paths) : ev["h1"].paths[i] \notin KpmNamed) =>
    (files0 \cap KpmNamed) \subseteq files

====
